---- MODULE Spec2Model ----
(***************************************************************************)
(* Model of the RKPI2 header codec (src/src/lib.rs): mux packs a Hdr into  *)
(* a 2-byte header and optionally wraps the writer with a Zstd encoder,    *)
(* demux reads the header back and optionally wraps the reader with a Zstd *)
(* decoder.  Bytes are u8 values, all bit operations are computed bit by   *)
(* bit as the Rust expressions compute them.                               *)
(***************************************************************************)
EXTENDS Integers, Sequences, FiniteSets, TLC

\* ---------------------------------------------------------------- bounds
MaxPayload == 2
MaxChannels == 9
PayloadBytes == {0, 127}
BadRates == {0, 50000}
Levels == {0, 1, 21}

\* ------------------------------------------------------------- constants
HdrLen == 2
StartCode == 61

Byte == 0..255

\* ------------------------------------------------------- u8 bit operators
Shl(x, n) == (x * (2 ^ n)) % 256

Shr(x, n) == x \div (2 ^ n)

RECURSIVE BitAndN(_, _, _)
BitAndN(a, b, n) ==
  IF n = 0 THEN 0
  ELSE ((a % 2) * (b % 2)) + 2 * BitAndN(a \div 2, b \div 2, n - 1)

RECURSIVE BitOrN(_, _, _)
BitOrN(a, b, n) ==
  IF n = 0 THEN 0
  ELSE (IF (a % 2) + (b % 2) > 0 THEN 1 ELSE 0)
       + 2 * BitOrN(a \div 2, b \div 2, n - 1)

BitAnd(a, b) == BitAndN(a, b, 8)

BitOr(a, b) == BitOrN(a, b, 8)

\* ------------------------------------------------------ utils: Fmt, Hdr
FmtNames == <<"Int8", "Int16", "Int32", "Int64", "Float32", "Float64">>

\* `h.format as u8`: the discriminant of the variant
FmtCode(f) == (CHOOSE i \in 1..Len(FmtNames) : FmtNames[i] = f) - 1

\* impl TryFrom<u8> for Fmt
TryFrom(f) ==
  IF f \in 0..5 THEN [ok |-> TRUE, fmt |-> FmtNames[f + 1]]
  ELSE [ok |-> FALSE, fmt |-> "none"]

NoHdr == [format |-> "none", rate |-> 0, channels |-> 0]

SAMPLERATES == <<8000, 12000, 22050, 32000, 44100, 64000, 96000, 192000>>

\* variant of Position: a rate missing from the table falls back to index 0
PositionDefault(rate) ==
  IF \E i \in 1..Len(SAMPLERATES) : SAMPLERATES[i] = rate
  THEN (CHOOSE i \in 1..Len(SAMPLERATES) : SAMPLERATES[i] = rate) - 1
  ELSE 0

\* SAMPLERATES.iter().position(|&s| s == rate): 0-based index, -1 for None
Position(rate) ==
  IF \E i \in 1..Len(SAMPLERATES) : SAMPLERATES[i] = rate
  THEN (CHOOSE i \in 1..Len(SAMPLERATES) :
          /\ SAMPLERATES[i] = rate
          /\ \A j \in 1..(i - 1) : SAMPLERATES[j] # rate) - 1
  ELSE -1

\* variant of ChannelsOk: the range starts at 0
ChannelsOkFromZero(ch) == ch \in 0..8

\* match h.channels { (1..=8) => ..., _ => Err }
ChannelsOk(ch) == ch \in 1..8

\* ------------------------------------------------------------------- mux
Byte0(compressed, fmt) ==
  BitOr(BitOr(Shl(StartCode, 2), Shl(compressed, 1)), Shr(fmt, 2))

\* variant of Byte1: the rate index is shifted by 2 instead of 3
Byte1RateShift2(fmt, idx, ch) ==
  BitOr(BitOr(Shl(BitAnd(fmt, 3), 6), Shl(idx, 2)), ch - 1)

Byte1(fmt, idx, ch) ==
  BitOr(BitOr(Shl(BitAnd(fmt, 3), 6), Shl(idx, 3)), ch - 1)

\* lev is <<>> for None and <<L>> for Some(L).
\* wres: number of header bytes the writer accepted before write_all
\*       returned (HdrLen = success, fewer = error after that many bytes).
\* encOk: whether Encoder::new succeeds.
mux(w, h, l, wres, encOk) ==
  LET srate_idx == Position(h.rate) IN
  IF srate_idx = -1
  THEN [res |-> "Rate", sink |-> w, encoder |-> FALSE]
  ELSE IF ~ChannelsOk(h.channels)
  THEN [res |-> "Channels", sink |-> w, encoder |-> FALSE]
  ELSE
    LET compressed == IF l # <<>> THEN 1 ELSE 0
        bytes == << Byte0(compressed, FmtCode(h.format)),
                    Byte1(FmtCode(h.format), srate_idx, h.channels) >>
    IN
    IF wres < HdrLen
    THEN [res |-> "IO", sink |-> w \o SubSeq(bytes, 1, wres),
          encoder |-> FALSE]
    ELSE IF l # <<>>
    THEN IF encOk
         THEN [res |-> "Ok", sink |-> w \o bytes, encoder |-> TRUE]
         ELSE [res |-> "IO", sink |-> w \o bytes, encoder |-> FALSE]
    ELSE [res |-> "Ok", sink |-> w \o bytes, encoder |-> FALSE]

\* ----------------------------------------------------------------- demux
\* variant of StartCodeOk: the start code is tested as a mask
StartCodeOkMask(hdr0) == BitAnd(hdr0, Shl(StartCode, 2)) = Shl(StartCode, 2)

StartCodeOk(hdr0) == Shr(hdr0, 2) = StartCode

FormatBits(hdr0, hdr1) == BitOr(Shl(BitAnd(hdr0, 1), 2), Shr(hdr1, 6))

RateBits(hdr1) == BitAnd(Shr(hdr1, 3), 3)

ChannelBits(hdr1) == BitAnd(hdr1, 3)

\* variant of CompressedFlag: the flag is taken from bit 2
CompressedFlagBit2(hdr0) == BitAnd(Shr(hdr0, 2), 1) = 1

CompressedFlag(hdr0) == BitAnd(Shr(hdr0, 1), 1) = 1

\* r.read(&mut hdr) on a zero-filled [0u8; 2]: the first n bytes of the
\* source are copied, the rest of the buffer keeps its zeros.
ReadInto(s, n) == [i \in 1..HdrLen |-> IF i <= n THEN s[i] ELSE 0]

\* rd: outcome of the single read call ([err |-> TRUE] = Err(_),
\*     otherwise n bytes delivered).  decOk: whether Decoder::new succeeds.
demux(s, rd, decOk) ==
  IF rd.err
  THEN [res |-> "IO", hdr |-> NoHdr, decoder |-> FALSE, pos |-> 0]
  ELSE
    LET hdr == ReadInto(s, rd.n) IN
    IF ~StartCodeOk(hdr[1])
    THEN [res |-> "StartCode", hdr |-> NoHdr, decoder |-> FALSE,
          pos |-> rd.n]
    ELSE
      LET format == TryFrom(FormatBits(hdr[1], hdr[2])) IN
      IF ~format.ok
      THEN [res |-> "Format", hdr |-> NoHdr, decoder |-> FALSE,
            pos |-> rd.n]
      ELSE
        LET h == [format |-> format.fmt,
                  rate |-> SAMPLERATES[RateBits(hdr[2]) + 1],
                  channels |-> ChannelBits(hdr[2]) + 1]
        IN
        IF CompressedFlag(hdr[1])
        THEN IF decOk
             THEN [res |-> "Ok", hdr |-> h, decoder |-> TRUE, pos |-> rd.n]
             ELSE [res |-> "IO", hdr |-> NoHdr, decoder |-> FALSE,
                   pos |-> rd.n]
        ELSE [res |-> "Ok", hdr |-> h, decoder |-> FALSE, pos |-> rd.n]

\* ------------------------------------------- Zstd as an encode/decode pair
Enc(b) == (b + 1) % 256

Dec(b) == (b + 255) % 256

EncAll(s) == [i \in 1..Len(s) |-> Enc(s[i])]

\* ----------------------------------------------------------------- state
VARIABLES
  ihdr,      \* Hdr handed to mux
  lev,       \* Option<u8> handed to mux
  sink,      \* bytes the writer has received
  muxRes,    \* "none" before the call, then "Ok" or the RErr variant
  encoder,   \* mux returned a Zstd encoder around the writer
  encBuf,    \* compressed bytes held by the encoder until flush
  isamples,  \* payload bytes written through the returned writer
  origin,    \* "none", "pipe" (demux of the muxed bytes) or "input"
  src,       \* bytes of the reader handed to demux
  rdres,     \* outcome of demux's read call
  pos,       \* read position of the source
  demuxRes,  \* "none" before the call, then "Ok" or the RErr variant
  ohdr,      \* Hdr returned by demux
  decoder,   \* demux returned a Zstd decoder around the reader
  osamples   \* payload bytes read through the returned reader

vars == << ihdr, lev, sink, muxRes, encoder, encBuf, isamples, origin, src,
           rdres, pos, demuxRes, ohdr, decoder, osamples >>

muxVars == << ihdr, lev, sink, muxRes, encoder, encBuf, isamples >>

demuxVars == << origin, src, rdres, pos, demuxRes, ohdr, decoder, osamples >>

NoRead == [err |-> FALSE, n |-> 0]

Init ==
  /\ ihdr = NoHdr
  /\ lev = <<>>
  /\ sink = <<>>
  /\ muxRes = "none"
  /\ encoder = FALSE
  /\ encBuf = <<>>
  /\ isamples = <<>>
  /\ origin = "none"
  /\ src = <<>>
  /\ rdres = NoRead
  /\ pos = 0
  /\ demuxRes = "none"
  /\ ohdr = NoHdr
  /\ decoder = FALSE
  /\ osamples = <<>>

Rates == {SAMPLERATES[i] : i \in 1..Len(SAMPLERATES)} \cup BadRates

Formats == {FmtNames[i] : i \in 1..Len(FmtNames)}

\* outcomes a Read implementation may give for a 2-byte buffer
ReadOutcomes(s) ==
  {[err |-> TRUE, n |-> 0]} \cup
  {[err |-> FALSE, n |-> k] :
     k \in (IF Len(s) = 0 THEN {0}
            ELSE 1..(IF Len(s) < HdrLen THEN Len(s) ELSE HdrLen))}

\* mux(Box::new(out), ihdr, lev) on an empty writer
Mux ==
  /\ muxRes = "none"
  /\ origin = "none"
  /\ \E f \in Formats, r \in Rates, c \in 0..MaxChannels,
        l \in {<<>>} \cup {<<x>> : x \in Levels},
        wres \in 0..HdrLen, encOk \in BOOLEAN :
       LET m == mux(sink, [format |-> f, rate |-> r, channels |-> c],
                    l, wres, encOk)
       IN
       \* the environment outcomes are recorded only where the code
       \* consults them
       /\ (wres < HdrLen) => (m.res = "IO" /\ ~encOk)
       /\ (~encOk) => (m.res = "IO")
       /\ ihdr' = [format |-> f, rate |-> r, channels |-> c]
       /\ lev' = l
       /\ sink' = m.sink
       /\ muxRes' = m.res
       /\ encoder' = m.encoder
  /\ UNCHANGED << encBuf, isamples >>
  /\ UNCHANGED demuxVars

\* rkout.write(&[b]) through the writer mux returned
WriteSample ==
  /\ muxRes = "Ok"
  /\ origin = "none"
  /\ Len(isamples) < MaxPayload
  /\ \E b \in PayloadBytes :
       /\ isamples' = Append(isamples, b)
       /\ IF encoder
          THEN /\ encBuf' = Append(encBuf, Enc(b))
               /\ sink' = sink
          ELSE /\ sink' = Append(sink, b)
               /\ encBuf' = encBuf
  /\ UNCHANGED << ihdr, lev, muxRes, encoder >>
  /\ UNCHANGED demuxVars

\* rkout.flush(): the encoder hands its buffered output to the writer
Flush ==
  /\ muxRes = "Ok"
  /\ origin = "none"
  /\ encoder
  /\ encBuf # <<>>
  /\ sink' = sink \o encBuf
  /\ encBuf' = <<>>
  /\ UNCHANGED << ihdr, lev, muxRes, encoder, isamples >>
  /\ UNCHANGED demuxVars

DemuxOn(s, o) ==
  \E rd \in ReadOutcomes(s), decOk \in BOOLEAN :
    LET d == demux(s, rd, decOk) IN
    /\ (~decOk) => (d.res = "IO" /\ ~rd.err)
    /\ origin' = o
    /\ src' = s
    /\ rdres' = rd
    /\ pos' = d.pos
    /\ demuxRes' = d.res
    /\ ohdr' = d.hdr
    /\ decoder' = d.decoder
    /\ osamples' = <<>>

\* demux(Box::new(inp)) on the read end of the pipe mux wrote to
DemuxPipe ==
  /\ muxRes = "Ok"
  /\ origin = "none"
  /\ DemuxOn(sink, "pipe")
  /\ UNCHANGED muxVars

Inputs == {<<>>} \cup {<<a>> : a \in Byte} \cup
          {<<a, b>> : a \in Byte, b \in Byte}

\* demux on a reader holding at most HdrLen arbitrary bytes
DemuxInput ==
  /\ muxRes = "none"
  /\ origin = "none"
  /\ \E s \in Inputs : DemuxOn(s, "input")
  /\ UNCHANGED muxVars

\* rkin.read(&mut [_]) through the reader demux returned
ReadSample ==
  /\ demuxRes = "Ok"
  /\ pos < Len(src)
  /\ osamples' = Append(osamples,
                        IF decoder THEN Dec(src[pos + 1]) ELSE src[pos + 1])
  /\ pos' = pos + 1
  /\ UNCHANGED << origin, src, rdres, demuxRes, ohdr, decoder >>
  /\ UNCHANGED muxVars

Next ==
  \/ Mux
  \/ WriteSample
  \/ Flush
  \/ DemuxPipe
  \/ DemuxInput
  \/ ReadSample

Spec == Init /\ [][Next]_vars

\* ------------------------------------------------------ claim vocabulary
ValidHdr(h) ==
  /\ h.format \in Formats
  /\ \E i \in 1..Len(SAMPLERATES) : SAMPLERATES[i] = h.rate
  /\ h.channels \in 1..8

\* index (0-based) of a table rate, by table lookup
RateIndex(rate) ==
  CASE rate = 8000 -> 0 [] rate = 12000 -> 1 [] rate = 22050 -> 2
    [] rate = 32000 -> 3 [] rate = 44100 -> 4 [] rate = 64000 -> 5
    [] rate = 96000 -> 6 [] rate = 192000 -> 7

\* wire code of a format, by the enumeration of the data model
WireCode(f) ==
  CASE f = "Int8" -> 0 [] f = "Int16" -> 1 [] f = "Int32" -> 2
    [] f = "Int64" -> 3 [] f = "Float32" -> 4 [] f = "Float64" -> 5

\* fields of a 2-byte wire header, arithmetically
WStart(b0) == b0 \div 4

WFlag(b0) == (b0 \div 2) % 2

WFormat(b0, b1) == 4 * (b0 % 2) + (b1 \div 64)

WRate(b1) == (b1 \div 8) % 8

WChannels(b1) == (b1 % 8) + 1

\* demux ran, its read delivered the whole header, and the decoder (if any)
\* could be constructed
FullRead == /\ demuxRes # "none"
            /\ ~rdres.err
            /\ rdres.n = HdrLen
            /\ demuxRes # "IO"

IsPrefix(s, t) == /\ Len(s) <= Len(t)
                  /\ \A i \in 1..Len(s) : s[i] = t[i]

\* C1: header round trip -- mux of a valid header with level none, 1 or 21
\* followed by demux of the bytes the sink received succeeds and returns
\* the same header.
C1_RoundTrip ==
  (/\ origin = "pipe"
   /\ ValidHdr(ihdr)
   /\ lev \in {<<>>, <<1>>, <<21>>}
   /\ FullRead)
  => (demuxRes = "Ok" /\ ohdr = ihdr)

\* C2: a successful mux writes exactly the two bytes
\* byte0 = (0x3D << 2) | (flag << 1) | (code >> 2) and
\* byte1 = ((code & 3) << 6) | (rateIndex << 3) | (channels - 1);
\* Hdr{Int8, 8000, 1} without compression gives [0xF4, 0x00].
C2_BitLayout ==
  (muxRes = "Ok" /\ isamples = <<>>)
  => /\ sink = << 244 + 2 * (IF lev = <<>> THEN 0 ELSE 1)
                      + (WireCode(ihdr.format) \div 4),
                  64 * (WireCode(ihdr.format) % 4)
                      + 8 * RateIndex(ihdr.rate)
                      + (ihdr.channels - 1) >>
     /\ (/\ ihdr = [format |-> "Int8", rate |-> 8000, channels |-> 1]
         /\ lev = <<>>)
        => sink = <<244, 0>>

C2_Witness ==
  /\ muxRes = "Ok"
  /\ isamples = <<>>
  /\ ihdr = [format |-> "Float64", rate |-> 192000, channels |-> 8]
  /\ lev = <<21>>
  /\ sink = <<247, 127>>

\* C3: for a 2-byte input with start code 0x3D and format code 0..5, demux
\* succeeds with rate = table[byte1 bits 5:3], channels = byte1 bits 2:0 + 1
\* and the format of code byte0 bit 0 : byte1 bits 7:6.
C3_FieldUnpacking ==
  (/\ origin = "input"
   /\ Len(src) = HdrLen
   /\ FullRead
   /\ WStart(src[1]) = StartCode
   /\ WFormat(src[1], src[2]) \in 0..5)
  => /\ demuxRes = "Ok"
     /\ ohdr.rate = SAMPLERATES[WRate(src[2]) + 1]
     /\ ohdr.channels = WChannels(src[2])
     /\ ohdr.format = FmtNames[WFormat(src[1], src[2]) + 1]

\* C4: when the source delivers fewer than 2 bytes to the header read,
\* demux fails with IOError.
C4_ShortRead ==
  (/\ demuxRes # "none"
   /\ ~rdres.err
   /\ rdres.n < HdrLen)
  => demuxRes = "IO"

\* C5: after a successful mux the sink holds the 2 header bytes followed by
\* the payload written through the returned stream (encoded when an encoder
\* was returned, once flushed), and the stream returned by demux on those
\* bytes yields the payload bytes starting right after the header.
C5_SampleRoundTrip ==
  /\ (muxRes = "Ok")
     => /\ Len(sink) >= HdrLen
        /\ SubSeq(sink, 1, HdrLen)
             = << Byte0(IF lev = <<>> THEN 0 ELSE 1, WireCode(ihdr.format)),
                  Byte1(WireCode(ihdr.format), RateIndex(ihdr.rate),
                        ihdr.channels) >>
        /\ SubSeq(sink, HdrLen + 1, Len(sink)) \o encBuf
             = (IF encoder THEN EncAll(isamples) ELSE isamples)
  /\ (origin = "pipe" /\ demuxRes = "Ok")
     => /\ IsPrefix(osamples, isamples)
        /\ (pos = Len(src) /\ encBuf = <<>>) => osamples = isamples

\* C6: a header whose rate is not in the table makes mux fail with
\* RateError, with nothing written and no encoder constructed.
C6_InvalidRate ==
  (/\ muxRes # "none"
   /\ \A i \in 1..Len(SAMPLERATES) : SAMPLERATES[i] # ihdr.rate)
  => /\ muxRes = "Rate"
     /\ sink = <<>>
     /\ ~encoder

C6_Witness ==
  /\ muxRes = "Rate"
  /\ ihdr.rate = 50000
  /\ ihdr.channels = 0
  /\ lev = <<21>>
  /\ sink = <<>>

\* C7: a header with a table rate and channels outside 1..8 makes mux fail
\* with ChannelsError, with nothing written.
C7_InvalidChannels ==
  (/\ muxRes # "none"
   /\ \E i \in 1..Len(SAMPLERATES) : SAMPLERATES[i] = ihdr.rate
   /\ ihdr.channels \notin 1..8)
  => /\ muxRes = "Channels"
     /\ sink = <<>>
     /\ ~encoder

C7_Witness ==
  /\ muxRes = "Channels"
  /\ ihdr.rate = 192000
  /\ ihdr.channels = 9
  /\ sink = <<>>

\* C8: a 2-byte input whose byte0 bits 7:2 differ from 0x3D makes demux fail
\* with StartCodeError whatever the other bits are, and no decoder is
\* constructed.
C8_StartCode ==
  (/\ demuxRes # "none"
   /\ ~rdres.err
   /\ Len(src) = HdrLen
   /\ WStart(src[1]) # StartCode)
  => /\ demuxRes = "StartCode"
     /\ ~decoder
     /\ ohdr = NoHdr

\* reserved format code 7 and compression flag set, start code 0x3F
C8_Witness ==
  /\ demuxRes = "StartCode"
  /\ src = <<255, 255>>
  /\ rdres.n = HdrLen
  /\ ~decoder

\* C9: with a valid start code, format codes 6 and 7 make demux fail with
\* FormatError, and codes 0..5 never do.
C9_ReservedFormat ==
  (/\ demuxRes # "none"
   /\ ~rdres.err
   /\ Len(src) = HdrLen
   /\ WStart(src[1]) = StartCode)
  => /\ (WFormat(src[1], src[2]) \in {6, 7}) => demuxRes = "Format"
     /\ (WFormat(src[1], src[2]) \in 0..5) => demuxRes # "Format"

\* C10: a successful mux sets byte0 bit 1 and returns an encoder iff a level
\* was supplied (0 included); a successful demux returns a decoder iff
\* byte0 bit 1 is set; so a muxed stream is demuxed through a decoder
\* exactly when it was muxed with a level.
C10_FlagAgreement ==
  /\ (muxRes = "Ok")
     => /\ encoder <=> (lev # <<>>)
        /\ (WFlag(sink[1]) = 1) <=> (lev # <<>>)
  /\ (muxRes \notin {"Ok", "none"}) => ~encoder
  /\ (demuxRes = "Ok")
     => (decoder <=> (WFlag(src[1]) = 1))
  /\ (demuxRes # "Ok") => ~decoder
  /\ (origin = "pipe" /\ demuxRes = "Ok")
     => (decoder <=> (lev # <<>>))

C10_Witness ==
  /\ origin = "pipe"
  /\ demuxRes = "Ok"
  /\ decoder
  /\ encoder
  /\ lev = <<0>>
  /\ WFlag(src[1]) = 1

====
